---------------------------- MODULE Spec2Model ----------------------------
(***************************************************************************)
(* A model of src/generateArrow.py: the class ArrowAnimationGenerator.      *)
(*                                                                         *)
(* Numbers.  The program computes with Python floats.  The model keeps the *)
(* values exact:                                                           *)
(*   - duration and frequency are rationals [n |-> numerator, d |-> den],  *)
(*     drawn from dyadic rationals, which a float holds exactly;           *)
(*   - an angle is kept in turns (angle / 2 pi) as a rational;             *)
(*   - a coordinate is kept multiplied by CoordScale, which clears the     *)
(*     denominators 2, 4 and 10 of the vertex table;                        *)
(*   - np.cos(angle) and np.sin(angle) are kept symbolic: a rotated        *)
(*     coordinate is the linear form  c * cos(angle) + s * sin(angle),     *)
(*     the record [c |-> c, s |-> s].                                      *)
(***************************************************************************)
EXTENDS Integers, Sequences, FiniteSets

VARIABLES
    pc,               \* position: "new", "idle", or a step of run()
    arrow_size, arrow_width, arrow_body_width,   \* self.arrow_*
    width, height,    \* self.width, self.height
    fps, duration, frequency,                    \* self.fps, ...
    total_frames,     \* self.total_frames
    rotation_offset,  \* self.rotation_offset (times CoordScale)
    arrow_polygon,    \* self.arrow_polygon: None or the patch last added
    ax_patches,       \* the patches on self.ax, in the order added
    last_frame,       \* <<f>> for the latest call animate(f); <<>> before any
    rotated_points,   \* value returned by the latest create_arrow_polygon()
    frame,            \* loop variable of generate_frames
    temp_dir,         \* the staging directory of the current run
    saved,            \* the savefig calls of this run that succeeded
    probe_calls,      \* outcomes of this run's ['ffmpeg', '-version'] calls
    encode_calls,     \* encoding commands executed in this run, with results
    output_written,   \* this run's encoder produced the output video
    raised,           \* the exception run() propagates, or NoError
    rmtree_calls,     \* shutil.rmtree calls of this run
    rmtree_failed     \* the removal itself failed (ignore_errors=True)

config == <<arrow_size, arrow_width, arrow_body_width, width, height,
            fps, duration, frequency, total_frames, rotation_offset>>
canvas == <<arrow_polygon, ax_patches, last_frame>>
runvars == <<frame, temp_dir, saved, probe_calls, encode_calls,
             output_written, raised, rmtree_calls, rmtree_failed>>
vars == <<pc, config, canvas, rotated_points, runvars>>

\* Python's None, where the program holds an object or None.
None == [none |-> TRUE]

---------------------------------------------------------------------------
(* Arithmetic on the exact values.                                         *)

\* int(x) of Python for x = a / b, b > 0: truncation toward zero.
PyInt(a, b) == IF a >= 0 THEN a \div b ELSE -((-a) \div b)

\* round(x) of Python 3 for x = a / b, b > 0: nearest integer, ties to even.
PyRound(a, b) ==
    LET q == a \div b
        r == a % b
    IN  IF 2 * r < b THEN q
        ELSE IF 2 * r > b THEN q + 1
        ELSE IF q % 2 = 0 THEN q ELSE q + 1

Rat(n, d) == [n |-> n, d |-> d]

\* x <= y for rationals with positive denominators.
RatLeq(x, y) == x.n * y.d <= y.n * x.d

\* x and y differ by a whole number.
RatCongruent(x, y) == (x.n * y.d - y.n * x.d) % (x.d * y.d) = 0

\* Denominators of the vertex table of create_arrow_polygon.
HalfDen == 2
QuarterDen == 4
OffsetDen == 10
\* Every coordinate times CoordScale is an integer.
CoordScale == (QuarterDen * OffsetDen) \div HalfDen

---------------------------------------------------------------------------
(* Defaults of __init__.                                                   *)

DefaultArrowSize == 100
DefaultArrowWidth == 40
DefaultArrowBodyWidth == 10
DefaultWidth == 400
DefaultHeight == 400
DefaultFps == 30
DefaultDuration == Rat(20, 1)
DefaultFrequency == Rat(1, 2)

---------------------------------------------------------------------------
(* __init__                                                                *)

\* Mutant: the frame count rounded to the nearest integer.
TotalFramesRounded(f, dur) == PyRound(f * dur.n, dur.d)

\* self.total_frames = int(self.fps * self.duration)
TotalFrames(f, dur) == PyInt(f * dur.n, dur.d)

\* self.rotation_offset = -self.arrow_size * 0.1
RotationOffset(size) == -((size * CoordScale) \div OffsetDen)

NoError == [type |-> "None", msg |-> <<>>]
NoDir == [exists |-> FALSE, files |-> <<>>]

\* Before the constructor has run the fields hold placeholders.
Init ==
    /\ pc = "new"
    /\ arrow_size = 0 /\ arrow_width = 0 /\ arrow_body_width = 0
    /\ width = 0 /\ height = 0
    /\ fps = 0 /\ duration = Rat(0, 1) /\ frequency = Rat(0, 1)
    /\ total_frames = 0 /\ rotation_offset = 0
    /\ arrow_polygon = None /\ ax_patches = <<>> /\ last_frame = <<>>
    /\ rotated_points = <<>>
    /\ frame = 0
    /\ temp_dir = NoDir
    /\ saved = <<>>
    /\ probe_calls = <<>> /\ encode_calls = <<>>
    /\ output_written = FALSE /\ raised = NoError
    /\ rmtree_calls = 0 /\ rmtree_failed = FALSE

\* ArrowAnimationGenerator(...): no argument is validated; the fields are
\* assigned, total_frames and rotation_offset derived, the figure created
\* with empty axes.
Construct(size, head, body, w, h, f, dur, freq) ==
    /\ pc = "new"
    /\ pc' = "idle"
    /\ arrow_size' = size
    /\ arrow_width' = head
    /\ arrow_body_width' = body
    /\ width' = w
    /\ height' = h
    /\ fps' = f
    /\ duration' = dur
    /\ frequency' = freq
    /\ total_frames' = TotalFrames(f, dur)
    /\ rotation_offset' = RotationOffset(size)
    /\ arrow_polygon' = None
    /\ ax_patches' = <<>>
    /\ UNCHANGED <<last_frame, rotated_points, runvars>>

---------------------------------------------------------------------------
(* create_arrow_polygon                                                    *)

\* A coordinate c * cos(angle) + s * sin(angle) of a rotated point.
Form(c, s, angle) == [c |-> c, s |-> s, of |-> angle]
FormAdd(x, y) == Form(x.c + y.c, x.s + y.s, x.of)
FormScale(k, x) == Form(k * x.c, k * x.s, x.of)
FormNeg(x) == FormScale(-1, x)

\* x / 2 and x / 4 of a length x, times CoordScale.
Half(x) == x * (CoordScale \div HalfDen)
Quarter(x) == x * (CoordScale \div QuarterDen)
Whole(x) == x * CoordScale

\* head_end_y = self.arrow_size / 2 - self.arrow_width
HeadEndY == Half(arrow_size) - Whole(arrow_width)

\* arrow_points = np.array([...]): the 9 vertices before rotation.
ArrowPoints ==
    << <<0, Half(arrow_size) - rotation_offset>>,
       <<-Half(arrow_width),
         Half(arrow_size) - Whole(arrow_width) - rotation_offset>>,
       <<-Quarter(arrow_width),
         Half(arrow_size) - Whole(arrow_width) - rotation_offset>>,
       <<-Half(arrow_body_width), HeadEndY - rotation_offset>>,
       <<-Half(arrow_body_width), -Half(arrow_size) - rotation_offset>>,
       <<Half(arrow_body_width), -Half(arrow_size) - rotation_offset>>,
       <<Half(arrow_body_width), HeadEndY - rotation_offset>>,
       <<Quarter(arrow_width),
         Half(arrow_size) - Whole(arrow_width) - rotation_offset>>,
       <<Half(arrow_width),
         Half(arrow_size) - Whole(arrow_width) - rotation_offset>> >>

\* Mutant: the counter-clockwise matrix.
RotationMatrixCounterClockwise(angle) ==
    LET cos_a == Form(1, 0, angle)
        sin_a == Form(0, 1, angle)
    IN  << <<cos_a, FormNeg(sin_a)>>, <<sin_a, cos_a>> >>

\* rotation_matrix = np.array([[cos_a, sin_a], [-sin_a, cos_a]])
RotationMatrix(angle) ==
    LET cos_a == Form(1, 0, angle)
        sin_a == Form(0, 1, angle)
    IN  << <<cos_a, sin_a>>, <<FormNeg(sin_a), cos_a>> >>

\* m.T of a 2 x 2 matrix.
Transpose(m) == << <<m[1][1], m[2][1]>>, <<m[1][2], m[2][2]>> >>

\* a @ b for a of shape (n, 2), numbers, and b of shape (2, 2), forms.
MatMul(a, b) ==
    [i \in 1 .. Len(a) |->
        [j \in 1 .. 2 |->
            FormAdd(FormScale(a[i][1], b[1][j]), FormScale(a[i][2], b[2][j]))]]

\* rotated_points = arrow_points @ rotation_matrix.T
RotatedPoints(angle) == MatMul(ArrowPoints, Transpose(RotationMatrix(angle)))

\* A call of create_arrow_polygon(angle) from outside: it reads the
\* configuration and returns the array; no field is assigned.
CreateArrowPolygon(angle) ==
    /\ pc = "idle"
    /\ rotated_points' = RotatedPoints(angle)
    /\ UNCHANGED <<pc, config, canvas, runvars>>

---------------------------------------------------------------------------
(* animate                                                                 *)

\* Mutant: the time of a frame counted from 1, a phase offset of one frame.
AngleFromOne(f) ==
    LET n == frequency.n * (f + 1)
        d == frequency.d * fps
    IN  IF d < 0 THEN Rat(-n, -d) ELSE Rat(n, d)

\* t = frame / self.fps ; angle = 2 * np.pi * self.frequency * t, in turns.
\* (frame / self.fps raises ZeroDivisionError for fps = 0; run() never gets
\* there, as total_frames is then 0 and the loop is empty.)
Angle(f) ==
    LET n == frequency.n * f
        d == frequency.d * fps
    IN  IF d < 0 THEN Rat(-n, -d) ELSE Rat(n, d)

\* patches.Polygon(points, closed=True, facecolor=..., edgecolor=...)
Polygon(points) == [xy |-> points, closed |-> TRUE]

\* artist.remove(): the axes no longer hold the artist.
RemovePatch(patches, artist) ==
    LET i == CHOOSE k \in 1 .. Len(patches) : patches[k] = artist
    IN  SubSeq(patches, 1, i - 1) \o SubSeq(patches, i + 1, Len(patches))

\* Mutant: the previous polygon is left on the axes.
AfterRemoveSkipped == ax_patches

\* if self.arrow_polygon is not None: self.arrow_polygon.remove()
AfterRemove ==
    IF arrow_polygon # None THEN RemovePatch(ax_patches, arrow_polygon)
    ELSE ax_patches

\* The body of animate(f): the previous polygon is removed, the new one
\* created from the angle of f and added to the axes.
AnimateBody(f) ==
    LET points == RotatedPoints(Angle(f))
        new == Polygon(points)
    IN  /\ arrow_polygon' = new
        /\ ax_patches' = Append(AfterRemove, new)
        /\ last_frame' = <<f>>

\* A call of animate(f) from outside run().  With fps = 0 the call raises
\* ZeroDivisionError before anything is changed: no polygon can exist then.
Animate(f) ==
    /\ pc \in {"idle", "done"}
    /\ fps # 0
    /\ AnimateBody(f)
    /\ UNCHANGED <<pc, config, rotated_points, runvars>>

---------------------------------------------------------------------------
(* File names                                                              *)

\* Character codes of 'frame_' and '.png'.
StrFrame == <<102, 114, 97, 109, 101, 95>>
StrPng == <<46, 112, 110, 103>>
CodeZero == 48

RECURSIVE Digits(_)
\* The decimal digits of n >= 0, most significant first.
Digits(n) == IF n < 10 THEN <<n>> ELSE Append(Digits(n \div 10), n % 10)

\* Zero padding to a minimum width, as the d conversions of Python's format
\* and of printf do for a non-negative number: longer numbers are kept whole.
ZeroPad(ds, w) ==
    IF Len(ds) >= w THEN ds ELSE [i \in 1 .. (w - Len(ds)) |-> 0] \o ds

DigitCodes(ds) == [i \in 1 .. Len(ds) |-> CodeZero + ds[i]]

\* Width of {frame:04d} in generate_frames and of %04d in create_video.
FrameNameWidth == 4
PatternWidth == 4

\* Mutant: the frame number written without padding.
FramePathUnpadded(f) == StrFrame \o DigitCodes(Digits(f)) \o StrPng

\* f'frame_{frame:04d}.png'
FramePath(f) ==
    StrFrame \o DigitCodes(ZeroPad(Digits(f), FrameNameWidth)) \o StrPng

\* ffmpeg_cmd of create_video.
FfmpegCmd ==
    [overwrite |-> TRUE,
     framerate |-> fps,
     input |-> [prefix |-> StrFrame, width |-> PatternWidth, suffix |-> StrPng],
     vcodec |-> "qtrle",
     pix_fmt |-> "argb",
     output |-> "output_file"]

\* The file name the encoder opens for frame number i of an input pattern.
PatternName(pattern, i) ==
    pattern.prefix \o DigitCodes(ZeroPad(Digits(i), pattern.width))
        \o pattern.suffix

---------------------------------------------------------------------------
(* run, generate_frames, create_video                                      *)

\* Texts of the raised RuntimeErrors (the program's are in Chinese).
MsgRender == "error while generating the PNG sequence: "
MsgNoFfmpeg == "ffmpeg not found; install ffmpeg and add it to PATH"
MsgEncode == "ffmpeg failed: "

RuntimeError(msg) == [type |-> "RuntimeError", msg |-> msg]

\* What the encoder may print on a failure.
Diagnostics == {<<>>, <<"diag line 1">>, <<"diag line 1", "diag line 2">>}
Outputs == {<<>>, <<"progress">>}
\* What a failing savefig may raise.
SaveErrors == {"PermissionError", "OSError"}

\* run() up to the try: the staging directory is created.  A later call of
\* run() starts from the canvas the earlier calls left.
RunStart ==
    /\ pc \in {"idle", "done"}
    /\ pc' = "generate_frames"
    /\ temp_dir' = [exists |-> TRUE, files |-> <<>>]
    /\ frame' = 0
    /\ saved' = <<>>
    /\ probe_calls' = <<>>
    /\ encode_calls' = <<>>
    /\ output_written' = FALSE
    /\ raised' = NoError
    /\ rmtree_calls' = 0
    /\ rmtree_failed' = FALSE
    /\ UNCHANGED <<config, canvas, rotated_points>>

\* One pass of the loop of generate_frames: animate(frame), savefig.
GenerateFrame ==
    /\ pc = "generate_frames"
    /\ frame < total_frames
    /\ AnimateBody(frame)
    /\ temp_dir' = [temp_dir EXCEPT !.files = Append(@, FramePath(frame))]
    /\ saved' = Append(saved, [frame |-> frame, name |-> FramePath(frame),
                               shows |-> ax_patches'])
    /\ frame' = frame + 1
    /\ UNCHANGED <<pc, config, rotated_points, probe_calls, encode_calls,
                   output_written, raised, rmtree_calls, rmtree_failed>>

\* Mutant: a failing savefig is skipped over and the loop goes on.
SaveFailsIgnored ==
    /\ pc = "generate_frames"
    /\ frame < total_frames
    /\ AnimateBody(frame)
    /\ frame' = frame + 1
    /\ UNCHANGED <<pc, config, rotated_points, temp_dir, saved, probe_calls,
                   encode_calls, output_written, raised, rmtree_calls,
                   rmtree_failed>>

\* A pass of the loop in which savefig raises: generate_frames raises
\* RuntimeError and run() goes to its finally block.
SaveFails ==
    /\ pc = "generate_frames"
    /\ frame < total_frames
    /\ AnimateBody(frame)
    /\ \E e \in SaveErrors : raised' = RuntimeError(<<MsgRender, e>>)
    /\ pc' = "cleanup"
    /\ UNCHANGED <<config, rotated_points, frame, temp_dir, saved, probe_calls,
                   encode_calls, output_written, rmtree_calls, rmtree_failed>>

\* The loop is over: generate_frames returns and create_video is entered.
GenerateFramesReturn ==
    /\ pc = "generate_frames"
    /\ frame >= total_frames
    /\ pc' = "create_video"
    /\ UNCHANGED <<config, canvas, rotated_points, runvars>>

\* Mutant: the probe only tests that the binary could be started.
CheckFfmpegIgnoresReturncode(outcome) == outcome # "FileNotFoundError"

\* _check_ffmpeg: True when ['ffmpeg', '-version'] ran and returned 0.
CheckFfmpeg(outcome) == outcome = "returncode 0"

ProbeOutcomes == {"FileNotFoundError", "returncode 1", "returncode 0"}

\* create_video up to the encoding command: the probe, and the
\* RuntimeError when it fails.
Probe ==
    /\ pc = "create_video"
    /\ \E outcome \in ProbeOutcomes :
        /\ probe_calls' = Append(probe_calls, outcome)
        /\ IF CheckFfmpeg(outcome)
           THEN /\ pc' = "ffmpeg"
                /\ raised' = raised
           ELSE /\ pc' = "cleanup"
                /\ raised' = RuntimeError(<<MsgNoFfmpeg>>)
    /\ UNCHANGED <<config, canvas, rotated_points, frame, temp_dir, saved,
                   encode_calls, output_written, rmtree_calls, rmtree_failed>>

\* Mutant: the error text taken from stdout alone.
ErrorMsgStdout(result) == result.stdout

\* error_msg = result.stderr if result.stderr else result.stdout
ErrorMsg(result) == IF result.stderr # <<>> THEN result.stderr ELSE result.stdout

\* The encoding command runs and returns 0: the encoder wrote the video.
EncodeOk ==
    /\ pc = "ffmpeg"
    /\ encode_calls' = Append(encode_calls,
            [cmd |-> FfmpegCmd, returncode |-> 0, stderr |-> <<>>, stdout |-> <<>>])
    /\ output_written' = TRUE
    /\ pc' = "cleanup"
    /\ UNCHANGED <<config, canvas, rotated_points, frame, temp_dir, saved,
                   probe_calls, raised, rmtree_calls, rmtree_failed>>

\* The encoding command returns non-zero: no video; RuntimeError with the
\* encoder's text.
EncodeFails ==
    /\ pc = "ffmpeg"
    /\ \E err \in Diagnostics, out \in Outputs :
        LET result == [cmd |-> FfmpegCmd, returncode |-> 1,
                       stderr |-> err, stdout |-> out]
        IN  /\ encode_calls' = Append(encode_calls, result)
            /\ raised' = RuntimeError(<<MsgEncode>> \o ErrorMsg(result))
    /\ pc' = "cleanup"
    /\ UNCHANGED <<config, canvas, rotated_points, frame, temp_dir, saved,
                   probe_calls, output_written, rmtree_calls, rmtree_failed>>

\* Mutant: the removal placed after create_video instead of in finally:
\* it is skipped when an exception is on its way out.
CleanupOnSuccessOnly ==
    /\ pc = "cleanup"
    /\ IF raised = NoError
       THEN /\ rmtree_calls' = rmtree_calls + 1
            /\ temp_dir' = NoDir
       ELSE UNCHANGED <<rmtree_calls, temp_dir>>
    /\ pc' = "done"
    /\ UNCHANGED <<config, canvas, rotated_points, frame, saved, probe_calls,
                   encode_calls, output_written, raised, rmtree_failed>>

\* finally: shutil.rmtree(temp_dir, ignore_errors=True), then run() returns
\* or re-raises.  The removal either succeeds or fails without an exception.
Cleanup ==
    /\ pc = "cleanup"
    /\ rmtree_calls' = rmtree_calls + 1
    /\ \/ /\ temp_dir' = NoDir
          /\ rmtree_failed' = FALSE
       \/ /\ temp_dir' = temp_dir
          /\ rmtree_failed' = TRUE
    /\ pc' = "done"
    /\ UNCHANGED <<config, canvas, rotated_points, frame, saved, probe_calls,
                   encode_calls, output_written, raised>>

---------------------------------------------------------------------------
(* Construction alone, over a wide range of timing arguments.              *)

MaxFps == 30
MaxDurNum == 10
DurDens == {1, 2, 4}
FpsArgs == -1 .. MaxFps
DurArgs == {Rat(n, d) : n \in -2 .. MaxDurNum, d \in DurDens}

ConstructTiming ==
    \E f \in FpsArgs, dur \in DurArgs :
        Construct(DefaultArrowSize, DefaultArrowWidth, DefaultArrowBodyWidth,
                  DefaultWidth, DefaultHeight, f, dur, DefaultFrequency)

NextConfig == ConstructTiming

SpecConfig == Init /\ [][NextConfig]_vars

---------------------------------------------------------------------------
(* The pipeline: construction, run() any number of times, and animate()   *)
(* called from outside between the runs.                                   *)

MaxRunFps == 2
MaxRunDurNum == 3
RunDurDens == {1, 2}
RunFpsArgs == -1 .. MaxRunFps
RunDurArgs == {Rat(n, d) : n \in -1 .. MaxRunDurNum, d \in RunDurDens}
\* <<arrow_size, arrow_width, arrow_body_width>>
RunShapes ==
    {<<DefaultArrowSize, DefaultArrowWidth, DefaultArrowBodyWidth>>,
     <<DefaultArrowSize, DefaultArrowSize, DefaultArrowBodyWidth>>,
     <<DefaultArrowSize, DefaultArrowWidth, DefaultArrowWidth>>}
MaxCallFrame == 1

ConstructRun ==
    \E f \in RunFpsArgs, dur \in RunDurArgs, shape \in RunShapes :
        Construct(shape[1], shape[2], shape[3],
                  DefaultWidth, DefaultHeight, f, dur, DefaultFrequency)

AnimateCall == \E f \in 0 .. MaxCallFrame : Animate(f)

Next ==
    \/ ConstructRun
    \/ AnimateCall
    \/ RunStart
    \/ GenerateFrame
    \/ SaveFails
    \/ GenerateFramesReturn
    \/ Probe
    \/ EncodeOk
    \/ EncodeFails
    \/ Cleanup

Spec == Init /\ [][Next]_vars

---------------------------------------------------------------------------
(* animate() alone, over a range of frame rates and frequencies.           *)

MaxAnimFps == 4
MaxFreqNum == 3
MaxAnimFrame == 30
FreqDens == {1, 2, 4}
AnimFpsArgs == (1 .. MaxAnimFps) \cup {DefaultFps}
FreqArgs == {Rat(n, d) : n \in -1 .. MaxFreqNum, d \in FreqDens}

ConstructAnim ==
    \E f \in AnimFpsArgs, freq \in FreqArgs :
        Construct(DefaultArrowSize, DefaultArrowWidth, DefaultArrowBodyWidth,
                  DefaultWidth, DefaultHeight, f, DefaultDuration, freq)

AnimateAny == \E f \in 0 .. MaxAnimFrame : Animate(f)

NextAnimate == ConstructAnim \/ AnimateAny

SpecAnimate == Init /\ [][NextAnimate]_vars

---------------------------------------------------------------------------
(* create_arrow_polygon() alone, over a range of shapes and angles.        *)

MaxArrowSize == 4
MaxArrowWidth == 3
MaxAngleNum == 5
AngleDens == {1, 3, 4}
ShapeArgs ==
    {<<l, w, b>> : l \in 1 .. MaxArrowSize, w \in 0 .. MaxArrowWidth,
                   b \in 0 .. MaxArrowWidth}
        \cup {<<DefaultArrowSize, DefaultArrowWidth, DefaultArrowBodyWidth>>}
AngleArgs == {Rat(n, d) : n \in -MaxAngleNum .. MaxAngleNum, d \in AngleDens}

ConstructShape ==
    \E shape \in ShapeArgs :
        Construct(shape[1], shape[2], shape[3], DefaultWidth, DefaultHeight,
                  DefaultFps, DefaultDuration, DefaultFrequency)

CreateArrowPolygonAny == \E angle \in AngleArgs : CreateArrowPolygon(angle)

NextGeometry == ConstructShape \/ CreateArrowPolygonAny

SpecGeometry == Init /\ [][NextGeometry]_vars

---------------------------------------------------------------------------
(* Claims                                                                  *)

Max(a, b) == IF a >= b THEN a ELSE b
Last(seq) == seq[Len(seq)]

\* The constructor has run with a positive frame rate and duration.
ValidTiming == pc # "new" /\ fps > 0 /\ duration.n > 0

\* C4 as stated: for frame_rate > 0 and duration > 0, total_frames is
\* frame_rate * duration rounded to the nearest integer, and is at least 1.
C4_RoundedAtLeastOne ==
    ValidTiming =>
        /\ total_frames = PyRound(fps * duration.n, duration.d)
        /\ total_frames >= 1

\* C4 amended: for frame_rate > 0 and duration > 0, total_frames is
\* frame_rate * duration truncated toward zero: the integer k with
\* k <= frame_rate * duration < k + 1.  It is never negative, and it is at
\* least 1 exactly when frame_rate * duration >= 1.  30 fps for 10.0 s gives
\* 300 frames and 30 fps for 2.0 s gives 60.
C4_Truncated ==
    ValidTiming =>
        /\ total_frames * duration.d <= fps * duration.n
        /\ fps * duration.n < (total_frames + 1) * duration.d
        /\ total_frames >= 0
        /\ (total_frames >= 1) <=> (fps * duration.n >= duration.d)
        /\ (fps = 30 /\ duration = Rat(10, 1)) => total_frames = 300
        /\ (fps = 30 /\ duration = Rat(2, 1)) => total_frames = 60

\* A valid timing whose truncated frame count is not the rounded one.
C4_Witness ==
    /\ ValidTiming
    /\ total_frames # PyRound(fps * duration.n, duration.d)
    /\ total_frames >= 1

---------------------------------------------------------------------------
(* Claims about run()                                                      *)

InRun == pc \in {"generate_frames", "create_video", "ffmpeg", "cleanup"}
FramesWanted == Max(total_frames, 0)
EncoderStarted == probe_calls # <<>> \/ encode_calls # <<>>
\* The frames 0 .. total_frames - 1 have been saved, in that order.
AllFramesSaved ==
    /\ Len(saved) = FramesWanted
    /\ \A i \in 1 .. Len(saved) : saved[i].frame = i - 1
RenderFailed == pc \in {"cleanup", "done"} /\ Len(saved) < FramesWanted
ProbeFailed ==
    /\ probe_calls # <<>>
    /\ Last(probe_calls) \in {"FileNotFoundError", "returncode 1"}
EncoderFailed == encode_calls # <<>> /\ Last(encode_calls).returncode # 0
IsRuntimeError(text) ==
    raised.type = "RuntimeError" /\ raised.msg # <<>> /\ raised.msg[1] = text

\* The result of the run as its own steps decide it.
PrimaryResultRaised ==
    IF Len(saved) < FramesWanted THEN IsRuntimeError(MsgRender)
    ELSE IF ProbeFailed THEN raised = RuntimeError(<<MsgNoFfmpeg>>)
    ELSE IF EncoderFailed THEN IsRuntimeError(MsgEncode)
    ELSE raised = NoError /\ output_written

\* C1: whatever the outcome of run() (success, a frame that failed to
\* render, a failed probe, a failed encoder), the staging directory exists
\* throughout the run, its removal has been carried out exactly once when
\* run() returns or raises, the directory is gone unless that removal itself
\* failed, and what run() propagates is the run's own result, never an error
\* of the removal.
C1_StagingRemoved ==
    /\ InRun => (temp_dir.exists /\ rmtree_calls = 0)
    /\ pc = "done" =>
        /\ rmtree_calls = 1
        /\ temp_dir.exists => rmtree_failed
        /\ PrimaryResultRaised

\* run() has raised after writing frames, and the directory is gone.
C1_Witness ==
    /\ pc = "done"
    /\ raised # NoError
    /\ saved # <<>>
    /\ ~temp_dir.exists

\* C2: the encoder (probe or encoding command) is started only after every
\* frame 0 .. total_frames - 1 has been saved; the removal happens last;
\* a frame that fails to render ends the run with the rendering error, no
\* encoder invocation and no output video.
C2_PhaseOrder ==
    /\ pc = "generate_frames" => (~EncoderStarted /\ rmtree_calls = 0)
    /\ EncoderStarted => (AllFramesSaved /\ frame >= total_frames)
    /\ pc \in {"create_video", "ffmpeg"} => (AllFramesSaved /\ rmtree_calls = 0)
    /\ rmtree_calls > 0 => pc = "done"
    /\ RenderFailed =>
        /\ IsRuntimeError(MsgRender)
        /\ ~EncoderStarted
        /\ ~output_written

\* A frame failed to render after an earlier frame had been saved.
C2_Witness ==
    /\ pc = "done"
    /\ RenderFailed
    /\ saved # <<>>

\* A configuration the spec calls invalid.
InvalidConfig ==
    \/ fps <= 0 \/ duration.n <= 0
    \/ width <= 0 \/ height <= 0
    \/ arrow_width >= arrow_size
    \/ arrow_body_width >= arrow_width

\* C3 as stated, in what can be observed of it: for an invalid configuration
\* (non-positive frame rate, duration or canvas size, head width >= arrow
\* length, body width >= head width) no frame file is ever written and the
\* encoder is never invoked.
C3_InvalidConfigNeverRuns ==
    (pc # "new" /\ InvalidConfig) =>
        /\ saved = <<>>
        /\ temp_dir.files = <<>>
        /\ ~EncoderStarted

\* C5: when the probe fails (binary absent, or a non-zero return of the
\* version query) run() raises the encoder-unavailable RuntimeError, whose
\* text is not that of the encoder-failure error; the encoding command is
\* not executed and writes no output; and when run() has raised the staging
\* directory has been removed (it remains only if the removal itself failed).
C5_ProbeFailure ==
    ProbeFailed =>
        /\ pc \in {"cleanup", "done"}
        /\ raised = RuntimeError(<<MsgNoFfmpeg>>)
        /\ ~IsRuntimeError(MsgEncode)
        /\ encode_calls = <<>>
        /\ ~output_written
        /\ pc = "done" => (rmtree_calls = 1 /\ (temp_dir.exists => rmtree_failed))

\* The version query returned non-zero and run() has raised.
C5_Witness ==
    /\ pc = "done"
    /\ probe_calls = <<"returncode 1">>
    /\ saved # <<>>
    /\ ~temp_dir.exists

---------------------------------------------------------------------------
(* Claims about the frame files and the canvas                             *)

\* a < b in the lexicographic order of character codes.
LexLess(a, b) ==
    \E k \in 1 .. (Len(b) + 1) :
        /\ k <= Len(a) + 1
        /\ \A i \in 1 .. (k - 1) : a[i] = b[i]
        /\ \/ (k = Len(a) + 1 /\ k <= Len(b))
           \/ (k <= Len(a) /\ k <= Len(b) /\ a[k] < b[k])

RECURSIVE Pow10(_)
Pow10(k) == IF k = 0 THEN 1 ELSE 10 * Pow10(k - 1)

\* Frame numbers around every change of the number of digits, among the
\* numbers of FrameNameWidth digits or fewer (0 .. 9999).
SampleSpread == 2
SampleFrames ==
    {n \in {Pow10(k) + e : k \in 0 .. FrameNameWidth,
                           e \in -SampleSpread .. SampleSpread} :
        0 <= n /\ n < Pow10(FrameNameWidth)}

\* For frame numbers up to 9999 the names sort as the numbers do.
NamesSortAsNumbers ==
    \A i \in SampleFrames, j \in SampleFrames :
        (i < j) <=> LexLess(FramePath(i), FramePath(j))

\* C9: the frames saved so far are 0, 1, 2, ... in that order, one file
\* each and no other file in the staging directory; each file has the name
\* the encoder's input pattern gives for its number; the names are in
\* strictly increasing lexicographic order; all total_frames of them exist
\* when the encoder starts; and for frame numbers up to 9999 the
\* lexicographic order of the names is the numeric order of the frames.
C9_FrameFiles ==
    /\ \A i \in 1 .. Len(saved) :
        /\ saved[i].frame = i - 1
        /\ saved[i].name = PatternName(FfmpegCmd.input, i - 1)
    /\ \A i \in 1 .. (Len(saved) - 1) : LexLess(saved[i].name, saved[i + 1].name)
    /\ InRun => temp_dir.files = [i \in 1 .. Len(saved) |-> saved[i].name]
    /\ pc = "generate_frames" => Len(saved) = frame
    /\ EncoderStarted => Len(saved) = FramesWanted
    /\ NamesSortAsNumbers

\* The encoding command is about to read several frames.
C9_Witness ==
    /\ pc = "ffmpeg"
    /\ Len(saved) >= 3
    /\ temp_dir.files = [i \in 1 .. Len(saved) |-> saved[i].name]

\* The one polygon animate(f) leaves on the axes.
PolygonOfFrame(f) == Polygon(RotatedPoints(Angle(f)))

\* C10: after any sequence of animate calls (those of run() and those from
\* outside, in any order) the axes hold exactly one polygon, the one of the
\* latest call's frame, and it is the one self.arrow_polygon refers to;
\* before the first call they hold none; every saved frame shows exactly
\* one polygon, that of its own frame.
C10_OneArrow ==
    /\ last_frame = <<>> => (ax_patches = <<>> /\ arrow_polygon = None)
    /\ last_frame # <<>> =>
        /\ ax_patches = <<PolygonOfFrame(last_frame[1])>>
        /\ arrow_polygon = ax_patches[1]
    /\ \A i \in 1 .. Len(saved) :
        saved[i].shows = <<PolygonOfFrame(saved[i].frame)>>

\* run() drew frames 0, 1, ... and a later call from outside drew frame 0 again.
C10_Witness ==
    /\ pc = "done"
    /\ Len(saved) >= 2
    /\ last_frame = <<0>>
    /\ ax_patches = <<PolygonOfFrame(0)>>

---------------------------------------------------------------------------
(* Claims about the angle and the polygon                                  *)

\* The angle animate() used for the polygon now on the axes.
AngleUsed == arrow_polygon.xy[1][1].of

\* frame_rate / frequency, when it is a whole number of frames; else 0.
PeriodFrames ==
    LET num == fps * frequency.d
        den == IF frequency.n < 0 THEN -frequency.n ELSE frequency.n
    IN  IF den # 0 /\ num % den = 0
        THEN (IF frequency.n < 0 THEN -(num \div den) ELSE num \div den)
        ELSE 0

\* C7: the angle animate(f) uses is frequency * f / frame_rate turns, a
\* function of f alone (whatever was drawn before); it is 0 for f = 0; it
\* does not decrease with f when frequency >= 0; it changes by a whole
\* number of turns over frame_rate / frequency frames when that is a whole
\* number; and with frame_rate = 30 and frequency = 0.5 frame 30 is at
\* exactly half a turn.
C7_Angle ==
    pc # "new" =>
        /\ last_frame # <<>> =>
            /\ AngleUsed = Angle(last_frame[1])
            /\ AngleUsed.d > 0
            /\ AngleUsed.n * fps * frequency.d
                   = frequency.n * last_frame[1] * AngleUsed.d
            /\ last_frame[1] = 0 => AngleUsed.n = 0
            /\ (fps = 30 /\ frequency = Rat(1, 2) /\ last_frame[1] = 30)
                   => 2 * AngleUsed.n = AngleUsed.d
        /\ Angle(0).n = 0
        /\ frequency.n >= 0 =>
               \A f \in 0 .. (MaxAnimFrame - 1) : RatLeq(Angle(f), Angle(f + 1))
        /\ PeriodFrames # 0 =>
               \A f \in 0 .. MaxAnimFrame :
                   RatCongruent(Angle(f + PeriodFrames), Angle(f))

\* Scenario A: 30 fps, 0.5 Hz, frame 30 drawn.
C7_Witness ==
    /\ fps = 30
    /\ frequency = Rat(1, 2)
    /\ last_frame = <<30>>
    /\ PeriodFrames = 60

\* The spec's vertex table, times CoordScale: L arrow length, W head width,
\* B body width, offset = -0.1 L.
SpecVertices(L, W, B) ==
    LET offset == -((L * CoordScale) \div OffsetDen)
        half(x) == (x * CoordScale) \div 2
        quarter(x) == (x * CoordScale) \div 4
        headEndY == half(L) - W * CoordScale
        wingY == half(L) - W * CoordScale - offset
    IN  << <<0, half(L) - offset>>,
           <<-half(W), wingY>>,
           <<-quarter(W), wingY>>,
           <<-half(B), headEndY - offset>>,
           <<-half(B), -half(L) - offset>>,
           <<half(B), -half(L) - offset>>,
           <<half(B), headEndY - offset>>,
           <<quarter(W), wingY>>,
           <<half(W), wingY>> >>

\* The point (x, y) turned clockwise by the angle a:
\* (x cos a + y sin a, -x sin a + y cos a).
Clockwise(pt, a) == <<Form(pt[1], pt[2], a), Form(pt[2], -pt[1], a)>>

\* cos and sin of a whole number of quarter turns.
IsQuarterTurns(a) == (4 * a.n) % a.d = 0
QuarterTurns(a) == ((4 * a.n) \div a.d) % 4
CosQuarter(k) == <<1, 0, -1, 0>>[k + 1]
SinQuarter(k) == <<0, 1, 0, -1>>[k + 1]
\* The value of a coordinate whose angle is a whole number of quarter turns.
Value(form) ==
    LET k == QuarterTurns(form.of)
    IN  form.c * CosQuarter(k) + form.s * SinQuarter(k)

\* The point (x, y) after k clockwise quarter turns: +y goes to +x, +x to -y.
ClockwiseQuarters(pt, k) ==
    << <<pt[1], pt[2]>>, <<pt[2], -pt[1]>>,
       <<-pt[1], -pt[2]>>, <<-pt[2], pt[1]>> >>[k + 1]

\* The array returned by the latest call is the spec's table turned
\* clockwise by the angle of the call.
C8_Vertices ==
    rotated_points # <<>> =>
        LET a == rotated_points[1][1].of
            table == SpecVertices(arrow_size, arrow_width, arrow_body_width)
        IN  /\ Len(rotated_points) = 9
            /\ \A i \in 1 .. 9 :
                   /\ Len(rotated_points[i]) = 2
                   /\ rotated_points[i][1] = Clockwise(table[i], a)[1]
                   /\ rotated_points[i][2] = Clockwise(table[i], a)[2]
            /\ IsQuarterTurns(a) =>
                   \A i \in 1 .. 9 :
                       <<Value(rotated_points[i][1]), Value(rotated_points[i][2])>>
                           = ClockwiseQuarters(table[i], QuarterTurns(a))
            /\ a = Rat(1, 4) =>
                   /\ Value(rotated_points[1][1]) > 0
                   /\ Value(rotated_points[1][2]) = 0

\* C8: create_arrow_polygon returns 9 vertices, the i-th being the i-th
\* point of the spec's table (tip, left wing, left notch, left body top,
\* left tail, right tail, right body top, right notch, right wing; offset
\* -0.1 L) turned clockwise by the angle, for every shape including head or
\* body width 0; at a whole number of quarter turns the vertices are the
\* table's points turned by that many clockwise quarter turns, so that at a
\* quarter turn the tip lies on the positive x axis; and a call changes no
\* field of the generator and nothing on the canvas.
C8_Polygon ==
    /\ []C8_Vertices
    /\ [][rotated_points' # rotated_points => UNCHANGED <<config, canvas>>]_vars

\* A polygon with head width 0 at a quarter turn.
C8_Witness ==
    /\ rotated_points # <<>>
    /\ arrow_width = 0
    /\ arrow_body_width > 0
    /\ rotated_points[1][1].of = Rat(1, 4)

===========================================================================
